---------------------------- MODULE Spec2Model ----------------------------
(***************************************************************************)
(* A model of the economy engine of src/src/economy.c: the commodity       *)
(* catalog, the per-system economic state, production/consumption, the     *)
(* pairwise trade pass, pricing, the tick driver and the buy-cost          *)
(* integrator.                                                             *)
(*                                                                         *)
(* The C code computes in `double'.  The model computes the same           *)
(* expressions in exact arithmetic on the extended rationals: a value is   *)
(* a triple <<n, d, e>> standing for (n / d) * 10^e, or one of the three   *)
(* IEEE results of a division by zero (Inf, NegInf, NaN).  Rounding is not *)
(* modelled.                                                               *)
(***************************************************************************)
EXTENDS Integers, Sequences, FiniteSets, TLC

-----------------------------------------------------------------------------
(* Exact arithmetic standing for the C `double' operators.                 *)
(* Normal form of a finite value: the fraction in lowest terms with the    *)
(* powers of ten of its numerator or denominator moved to the exponent, so *)
(* d > 0, gcd(n, d) = 1 and neither n nor d is divisible by 10; a positive *)
(* exponent is left only beside a d without factors 2 and 5, a negative    *)
(* one only beside an n without them; zero is <<0, 1, 0>>.  Equal values   *)
(* have equal normal forms.  The exponent keeps the engine's round         *)
(* constants (100000000., 100000., 0.99, .1) small.                        *)

Abs(x) == IF x < 0 THEN -x ELSE x

Sgn(x) == IF x > 0 THEN 1 ELSE IF x < 0 THEN -1 ELSE 0

Min(a, b) == IF a <= b THEN a ELSE b

RECURSIVE Gcd(_, _)
Gcd(a, b) == IF b = 0 THEN a ELSE Gcd(b, a % b)

RECURSIVE Pow10(_)
Pow10(k) == IF k = 0 THEN 1 ELSE 10 * Pow10(k - 1)

Inf == <<1, 0, 0>>

NegInf == <<-1, 0, 0>>

NaN == <<0, 0, 0>>

Zero == <<0, 1, 0>>

IsNaN(x) == x[2] = 0 /\ x[1] = 0

IsInf(x) == x[2] = 0 /\ x[1] # 0

IsFinite(x) == x[2] # 0

IsZero(x) == x[2] # 0 /\ x[1] = 0

\* The sign of a value that is not NaN.
DSgn(x) == Sgn(x[1])

RECURSIVE StripNum(_, _)
StripNum(n, e) ==
    IF n # 0 /\ n % 10 = 0 THEN StripNum(n \div 10, e + 1) ELSE <<n, e>>

RECURSIVE StripDen(_, _, _)
StripDen(n, d, e) ==
    IF d % 10 = 0 THEN StripDen(n, d \div 10, e - 1) ELSE <<n, d, e>>

\* n * 10^e / d with e > 0: the tens of 10^e cancel the twos and fives of d.
RECURSIVE FoldPos(_, _, _)
FoldPos(n, d, e) ==
    IF e > 0 /\ d % 10 = 0 THEN FoldPos(n, d \div 10, e - 1)
    ELSE IF e > 0 /\ d % 2 = 0 THEN FoldPos(n * 5, d \div 2, e - 1)
    ELSE IF e > 0 /\ d % 5 = 0 THEN FoldPos(n * 2, d \div 5, e - 1)
    ELSE <<n, d, e>>

\* n / (d * 10^-e) with e < 0: the twos and fives of n cancel the tens.
RECURSIVE FoldNeg(_, _, _)
FoldNeg(n, d, e) ==
    IF e < 0 /\ n % 10 = 0 THEN FoldNeg(n \div 10, d, e + 1)
    ELSE IF e < 0 /\ n % 2 = 0 THEN FoldNeg(n \div 2, d * 5, e + 1)
    ELSE IF e < 0 /\ n % 5 = 0 THEN FoldNeg(n \div 5, d * 2, e + 1)
    ELSE <<n, d, e>>

\* (n / d) * 10^e in normal form, for d > 0.
DNorm(n, d, e) ==
    IF n = 0 THEN Zero
    ELSE LET g  == Gcd(Abs(n), d)
             f  == IF e > 0 THEN FoldPos(n \div g, d \div g, e)
                   ELSE FoldNeg(n \div g, d \div g, e)
             sn == StripNum(f[1], f[3])
         IN  StripDen(sn[1], f[2], sn[2])

\* An integer literal.
DInt(k) == DNorm(k, 1, 0)

\* A decimal literal k * 10^e, such as 0.99 = DDec(99, -2).
DDec(k, e) == DNorm(k, 1, e)

DNeg(a) == <<-a[1], a[2], a[3]>>

DAdd(a, b) ==
    IF IsNaN(a) \/ IsNaN(b) THEN NaN
    ELSE IF IsInf(a) /\ IsInf(b) THEN (IF a = b THEN a ELSE NaN)
    ELSE IF IsInf(a) THEN a
    ELSE IF IsInf(b) THEN b
    ELSE IF IsZero(a) THEN b
    ELSE IF IsZero(b) THEN a
    ELSE LET e  == Min(a[3], b[3])
             na == a[1] * Pow10(a[3] - e)
             nb == b[1] * Pow10(b[3] - e)
             g  == Gcd(a[2], b[2])
             l  == (a[2] \div g) * b[2]
         IN  DNorm(na * (l \div a[2]) + nb * (l \div b[2]), l, e)

DSub(a, b) == DAdd(a, DNeg(b))

DMul(a, b) ==
    IF IsNaN(a) \/ IsNaN(b) THEN NaN
    ELSE IF IsInf(a) \/ IsInf(b)
         THEN (IF IsZero(a) \/ IsZero(b) THEN NaN
               ELSE IF DSgn(a) * DSgn(b) > 0 THEN Inf ELSE NegInf)
    ELSE IF IsZero(a) \/ IsZero(b) THEN Zero
    ELSE LET g1 == Gcd(Abs(a[1]), b[2])
             g2 == Gcd(Abs(b[1]), a[2])
         IN  DNorm((a[1] \div g1) * (b[1] \div g2),
                   (a[2] \div g2) * (b[2] \div g1), a[3] + b[3])

\* 1 / b for a finite b other than zero.
DRecip(b) == DNorm(Sgn(b[1]) * b[2], Abs(b[1]), -b[3])

\* a / b as IEEE 754 defines it: x/0 is an infinity, 0/0 and Inf/Inf are NaN.
\* No denominator of the engine is a negative zero (credits and stockpiles
\* start positive and x - x is +0), so zero stands for +0.
DDiv(a, b) ==
    IF IsNaN(a) \/ IsNaN(b) THEN NaN
    ELSE IF IsInf(a)
         THEN (IF IsInf(b) THEN NaN
               ELSE IF DSgn(a) * (IF DSgn(b) < 0 THEN -1 ELSE 1) > 0 THEN Inf
               ELSE NegInf)
    ELSE IF IsInf(b) THEN Zero
    ELSE IF IsZero(b)
         THEN (IF IsZero(a) THEN NaN ELSE IF DSgn(a) > 0 THEN Inf ELSE NegInf)
    ELSE DMul(a, DRecip(b))

\* a < b; every comparison with NaN is false.
DLt(a, b) ==
    IF IsNaN(a) \/ IsNaN(b) THEN FALSE
    ELSE IF a = b THEN FALSE
    ELSE IF a = NegInf \/ b = Inf THEN TRUE
    ELSE IF a = Inf \/ b = NegInf THEN FALSE
    ELSE DSgn(DSub(a, b)) < 0

DLe(a, b) == IF IsNaN(a) \/ IsNaN(b) THEN FALSE ELSE a = b \/ DLt(a, b)

DGt(a, b) == DLt(b, a)

DGe(a, b) == DLe(b, a)

DAbs(a) == <<Abs(a[1]), a[2], a[3]>>

\* (credits_t) x for a finite x: the conversion truncates toward zero.
DTrunc(x) ==
    LET m == IF x[3] >= 0 THEN Abs(x[1]) * Pow10(x[3]) ELSE Abs(x[1])
        q == IF x[3] >= 0 THEN x[2] ELSE x[2] * Pow10(-x[3])
    IN  Sgn(x[1]) * (m \div q)

-----------------------------------------------------------------------------
(* Program constants.                                                      *)

\* #define STARTING_CREDITS 100000000.
STARTING_CREDITS == DDec(1, 8)

\* #define STARTING_GOODS 100000.
STARTING_GOODS == DDec(1, 5)

\* #define INITIAL_TRADE_MODIFIER 0.99
INITIAL_TRADE_MODIFIER == DDec(99, -2)

\* #define INITIAL_PRODUCTION_MODIFIER .1
INITIAL_PRODUCTION_MODIFIER == DDec(1, -1)

\* A null pointer; a live array of econ_nprices doubles is a sequence of
\* that length, slot goodnum of the C array being element goodnum + 1.
NULL == <<>>

-----------------------------------------------------------------------------
VARIABLES
    commodity_stack,     \* the catalog: a sequence of [price, index]
    econ_comm,           \* priced slot -> catalog slot (0-based values)
    econ_nprices,        \* number of priced commodities
    systems_stack,       \* system index -> StarSystem
    econ_initialized,    \* 0 or 1
    trade_modifier,
    production_modifier,
    fault,               \* "none", or which null array was accessed
    visits,              \* the transfers of the last trade_update, in order
    build_folds,         \* whether this build folds the null test of line 582
    pob,                 \* price_of_buying: the arguments and the result
    call,                \* the last entry point called, with what it returned
    pc, dt, i,           \* economy_update's loop: position, argument, counter
    nsub,                \* sub-steps of the running economy_update (saturating)
    npass,               \* trade and production steps made (bounds the exploration)
    start                \* the galaxy's totals when the exploration started

vars == <<commodity_stack, econ_comm, econ_nprices, systems_stack,
          econ_initialized, trade_modifier, production_modifier, fault,
          visits, build_folds, pob, call, pc, dt, i, nsub, npass, start>>

\* extern int systems_nstack, and the indices of systems_stack.
systems_nstack == Cardinality(DOMAIN systems_stack)

Sys == 0 .. (systems_nstack - 1)

GoodNums == 1 .. econ_nprices

-----------------------------------------------------------------------------
(* The machine state the engine's functions act on: the systems, the fault *)
(* and the transfer log.  Each function of the C file is an operator from  *)
(* machine state to machine state.  An access through a null pointer is a  *)
(* fault, after which nothing more runs: "system" when the pointer is one  *)
(* of a system's four arrays, "planet" when it is a planet's prod_mods.    *)

Machine(S, f, v) == [sys |-> S, fault |-> f, visits |-> v]

\* The arrays one system must hold for a loop over its goods to run.
HasNull(S, fields) ==
    econ_nprices > 0 /\ \E s \in DOMAIN S : \E k \in fields :
        IF k = "prices" THEN S[s].prices = NULL
        ELSE IF k = "stockpiles" THEN S[s].stockpiles = NULL
        ELSE IF k = "prod_mods" THEN S[s].prod_mods = NULL
        ELSE S[s].bought = NULL

-----------------------------------------------------------------------------
(* Faulty variants of one transfer, which the properties of the trade pass *)
(* must tell from the code's.                                              *)

\* The transfer of credits price*trade and of goods sold/bought between s1
\* and s2, with the bought counters kept as the code keeps them.
Transfer(M, s1, s2, g, pay1, pay2, sold1, sold2) ==
    LET S  == M.sys
        S1 == [S  EXCEPT ![s1].credits = DSub(@, pay1)]
        S2 == [S1 EXCEPT ![s2].credits = DAdd(@, pay2)]
        S3 == [S2 EXCEPT ![s1].stockpiles[g] = DAdd(@, sold1)]
        S4 == [S3 EXCEPT ![s2].stockpiles[g] = DSub(@, sold2)]
        S5 == [S4 EXCEPT ![s1].bought[g] = DAdd(@, sold1)]
        S6 == [S5 EXCEPT ![s2].bought[g] = DSub(@, sold2)]
    IN  Machine(S6, M.fault, Append(M.visits, <<s1, s2, g>>))

\* The seller is paid the quantity instead of price * quantity.
TradeGoodUnpaid(M, s1, s2, g) ==
    LET S     == M.sys
        c1    == S[s1].credits
        c2    == S[s2].credits
        g1    == S[s1].stockpiles[g]
        g2    == S[s2].stockpiles[g]
        price == DDiv(DAdd(c1, c2), DAdd(g1, g2))
        trade == DDiv(DMul(trade_modifier, DSub(DMul(c1, g2), DMul(c2, g1))),
                      DAdd(DAdd(DMul(price, DAdd(g1, g2)), c1), c2))
    IN  Transfer(M, s1, s2, g, DMul(price, trade), trade, trade, trade)

\* The numerator of the traded quantity with its two products exchanged.
TradeGoodReversed(M, s1, s2, g) ==
    LET S     == M.sys
        c1    == S[s1].credits
        c2    == S[s2].credits
        g1    == S[s1].stockpiles[g]
        g2    == S[s2].stockpiles[g]
        price == DDiv(DAdd(c1, c2), DAdd(g1, g2))
        trade == DDiv(DMul(trade_modifier, DSub(DMul(c2, g1), DMul(c1, g2))),
                      DAdd(DAdd(DMul(price, DAdd(g1, g2)), c1), c2))
    IN  Transfer(M, s1, s2, g, DMul(price, trade), DMul(price, trade),
                 trade, trade)

\* The denominator of the traded quantity without its terms + credits.
TradeGoodOvershoot(M, s1, s2, g) ==
    LET S     == M.sys
        c1    == S[s1].credits
        c2    == S[s2].credits
        g1    == S[s1].stockpiles[g]
        g2    == S[s2].stockpiles[g]
        price == DDiv(DAdd(c1, c2), DAdd(g1, g2))
        trade == DDiv(DMul(trade_modifier, DSub(DMul(c1, g2), DMul(c2, g1))),
                      DMul(price, DAdd(g1, g2)))
    IN  Transfer(M, s1, s2, g, DMul(price, trade), DMul(price, trade),
                 trade, trade)

-----------------------------------------------------------------------------
(* trade_update, lines 627-681.                                            *)

\* One transfer: lines 663-676 for systems s1, s2 and good g.
TradeGood(M, s1, s2, g) ==
    LET S     == M.sys
        c1    == S[s1].credits
        c2    == S[s2].credits
        g1    == S[s1].stockpiles[g]
        g2    == S[s2].stockpiles[g]
        price == DDiv(DAdd(c1, c2), DAdd(g1, g2))
        trade == DDiv(DMul(trade_modifier, DSub(DMul(c1, g2), DMul(c2, g1))),
                      DAdd(DAdd(DMul(price, DAdd(g1, g2)), c1), c2))
        pt    == DMul(price, trade)
        S1    == [S  EXCEPT ![s1].credits = DSub(@, pt)]
        S2    == [S1 EXCEPT ![s2].credits = DAdd(@, pt)]
        S3    == [S2 EXCEPT ![s1].stockpiles[g] = DAdd(@, trade)]
        S4    == [S3 EXCEPT ![s2].stockpiles[g] = DSub(@, trade)]
        S5    == [S4 EXCEPT ![s1].bought[g] = DAdd(@, trade)]
        S6    == [S5 EXCEPT ![s2].bought[g] = DSub(@, trade)]
    IN  Machine(S6, M.fault, Append(M.visits, <<s1, s2, g>>))

\* The loop over goodnum, lines 660-677.
RECURSIVE TradeGoods(_, _, _, _)
TradeGoods(M, s1, s2, g) ==
    IF g > econ_nprices THEN M
    ELSE TradeGoods(TradeGood(M, s1, s2, g), s1, s2, g + 1)

\* sys2->id: a system's identifier is its index in systems_stack.
SysId(S, s) == S[s].id

\* A variant of the loop over jumpnum that trades with every neighbour
\* other than the system itself.
RECURSIVE TradeJumpsBothWays(_, _, _)
TradeJumpsBothWays(M, s1, j) ==
    IF j > Len(M.sys[s1].jumps) THEN M
    ELSE LET s2 == M.sys[s1].jumps[j]
         IN  TradeJumpsBothWays(IF s1 # SysId(M.sys, s2)
                                THEN TradeGoods(M, s1, s2, 1) ELSE M,
                                s1, j + 1)

\* The loop over jumpnum, lines 653-679, with the test of line 658.
RECURSIVE TradeJumps(_, _, _)
TradeJumps(M, s1, j) ==
    IF j > Len(M.sys[s1].jumps) THEN M
    ELSE LET s2 == M.sys[s1].jumps[j]
         IN  TradeJumps(IF s1 < SysId(M.sys, s2) THEN TradeGoods(M, s1, s2, 1)
                        ELSE M,
                        s1, j + 1)

\* The loop over the systems, lines 649-680.
RECURSIVE TradeSystems(_, _)
TradeSystems(M, s1) ==
    IF s1 >= Cardinality(DOMAIN M.sys) THEN M
    ELSE TradeSystems(TradeJumps(M, s1, 1), s1 + 1)

\* Lines 642-646: every bought[goodnum] is set to 0.
ClearBought(S) ==
    [s \in DOMAIN S |-> [S[s] EXCEPT !.bought = [g \in GoodNums |-> Zero]]]

trade_update(M) ==
    IF M.fault # "none" THEN M
    ELSE IF HasNull(M.sys, {"bought", "stockpiles"})
         THEN Machine(M.sys, "system", M.visits)
    ELSE TradeSystems(Machine(ClearBought(M.sys), "none", <<>>), 0)

-----------------------------------------------------------------------------
(* Pricing: refresh_prices, lines 594-624.                                 *)

\* The PRICE macro of economy.h: the price curve credits / goods.
PRICE(Credits, Goods) == DDiv(Credits, Goods)

\* Line 615-620 for one slot: the catalog entry read is commodity_stack[goodnum].
PriceOf(sys, g) ==
    DMul(DInt(commodity_stack[g].price), PRICE(sys.credits, sys.stockpiles[g]))

refresh_prices(M) ==
    IF M.fault # "none" THEN M
    ELSE IF HasNull(M.sys, {"prices", "stockpiles"})
         THEN Machine(M.sys, "system", M.visits)
    ELSE Machine([s \in DOMAIN M.sys |->
                    [M.sys[s] EXCEPT !.prices =
                        [g \in GoodNums |-> PriceOf(M.sys[s], g)]]],
                 "none", M.visits)

-----------------------------------------------------------------------------
(* Production and consumption, lines 524-560.                              *)

production(mod, goods) ==
    IF DGe(mod, Zero)
    THEN DMul(DMul(production_modifier, mod), DDiv(DInt(180000), goods))
    ELSE DMul(DMul(production_modifier, mod), DDiv(goods, DInt(18000)))

\* Lines 553-556 for one slot.
ProduceGood(sys, g) ==
    DAdd(sys.stockpiles[g], production(sys.prod_mods[g], sys.stockpiles[g]))

produce_consume(M) ==
    IF M.fault # "none" THEN M
    ELSE IF HasNull(M.sys, {"prod_mods", "stockpiles"})
         THEN Machine(M.sys, "system", M.visits)
    ELSE Machine([s \in DOMAIN M.sys |->
                    [M.sys[s] EXCEPT !.stockpiles =
                        [g \in GoodNums |-> ProduceGood(M.sys[s], g)]]],
                 "none", M.visits)

-----------------------------------------------------------------------------
(* The production aggregator: refresh_economy, lines 566-591.              *)

\* The test of line 582, planet->prod_mods + comm == NULL, for a planet whose
\* prod_mods is null.  For comm = 0 it is true.  For comm > 0 the pointer
\* sum is undefined: a build that computes the address finds it non-null
\* and reads through it (a fault); a build that folds the test to
\* prod_mods == NULL finds it true.  build_folds says which build this is.
NullTestTrue(comm0) == comm0 = 0 \/ build_folds

\* The loop over the planets, lines 581-587, for slot g from planet pl on:
\* <<the sum, whether a null array was read>>.
RECURSIVE SumPlanets(_, _, _, _)
SumPlanets(planets, g, pl, acc) ==
    IF pl > Len(planets) THEN <<acc, FALSE>>
    ELSE IF planets[pl] = NULL
         THEN (IF NullTestTrue(g - 1) THEN <<acc, FALSE>>
               ELSE <<acc, TRUE>>)
    ELSE SumPlanets(planets, g, pl + 1, DAdd(acc, planets[pl][g]))

refresh_economy(M) ==
    IF M.fault # "none" THEN M
    ELSE IF HasNull(M.sys, {"prod_mods"}) THEN Machine(M.sys, "system", M.visits)
    ELSE LET sum(s, g) == SumPlanets(M.sys[s].planets, g, 1, Zero)
         IN  Machine([s \in DOMAIN M.sys |->
                        [M.sys[s] EXCEPT !.prod_mods =
                            [g \in GoodNums |-> sum(s, g)[1]]]],
                     IF \E s \in DOMAIN M.sys : \E g \in GoodNums : sum(s, g)[2]
                     THEN "planet" ELSE "none",
                     M.visits)

-----------------------------------------------------------------------------
(* The catalog: commodity_load, lines 321-342.  The data file is a         *)
(* sequence of base prices, one per commodity element.                     *)

\* Lines 326-338 for one commodity element of base price p.
LoadOne(cat, p) ==
    LET stack  == Append(cat.stack, [price |-> p, index |-> 0])
        nstack == Len(stack)
    IN  IF p > 0
        THEN [stack  |-> [stack EXCEPT ![cat.nprices + 1].index = cat.nprices],
              comm   |-> Append(cat.comm, nstack - 1),
              nprices |-> cat.nprices + 1]
        ELSE [stack |-> stack, comm |-> cat.comm, nprices |-> cat.nprices]

RECURSIVE LoadFrom(_, _, _)
LoadFrom(cat, file, k) ==
    IF k > Len(file) THEN cat ELSE LoadFrom(LoadOne(cat, file[k]), file, k + 1)

commodity_load(file) ==
    LoadFrom([stack |-> <<>>, comm |-> <<>>, nprices |-> 0], file, 1)

-----------------------------------------------------------------------------
(* economy_init, lines 478-521, and economy_destroy, lines 713-739.        *)

\* Lines 494-509: the arrays are allocated and filled.
AllocSystem(sys) ==
    [sys EXCEPT !.prices     = [g \in GoodNums |-> Zero],
                !.stockpiles = [g \in GoodNums |-> STARTING_GOODS],
                !.credits    = STARTING_CREDITS,
                !.prod_mods  = [g \in GoodNums |-> Zero],
                !.bought     = [g \in GoodNums |-> Zero]]

\* Lines 725-734: the arrays are released and the pointers cleared.
FreeSystem(sys) ==
    IF sys.prices # NULL
    THEN [sys EXCEPT !.prices = NULL, !.stockpiles = NULL,
                     !.prod_mods = NULL, !.bought = NULL]
    ELSE sys

\* The machine state after economy_init's body (the flag is the action's).
economy_init(M) ==
    refresh_prices(
        refresh_economy(
            Machine([s \in DOMAIN M.sys |-> AllocSystem(M.sys[s])],
                    M.fault, M.visits)))

economy_destroy(M) ==
    Machine([s \in DOMAIN M.sys |-> FreeSystem(M.sys[s])], M.fault, M.visits)

-----------------------------------------------------------------------------
(* economy_update, lines 688-706.  The argument and the loop counter are   *)
(* unsigned 32-bit integers; a value is held as <<q, r>>, standing for     *)
(* q * 10000000 + r with 0 <= r < 10000000, so that i += 10000000 adds 1   *)
(* to q and the arithmetic stays modulo 2^32 = 429 * 10000000 + 4967296.   *)

\* The increment of line 698.
STEP == 10000000

\* 2^32 as <<q, r>>.
TwoTo32 == <<429, 4967296>>

WLt(x, y) == x[1] < y[1] \/ (x[1] = y[1] /\ x[2] < y[2])

WSub(x, y) ==
    IF x[2] >= y[2] THEN <<x[1] - y[1], x[2] - y[2]>>
    ELSE <<x[1] - y[1] - 1, x[2] + STEP - y[2]>>

\* Reduction modulo 2^32 of a value below 2^33.
U32(x) == IF WLt(x, TwoTo32) THEN x ELSE WSub(x, TwoTo32)

\* i += 10000000 on an unsigned int.
AddStep(x) == U32(<<x[1] + 1, x[2]>>)

\* One sub-step, lines 700-702.
SubStep(M) == refresh_prices(produce_consume(trade_update(M)))

\* ceil(d / 10000000).
Ceil(d) == IF d[2] = 0 THEN d[1] ELSE d[1] + 1

-----------------------------------------------------------------------------
(* price_of_buying, lines 408-437.  The result is a credits_t: either the  *)
(* constant 0xFFFFFFFFFFFFFFF0 of line 418 or a truncated sum.             *)

Sentinel == [sentinel |-> TRUE, cost |-> 0]

Cost(c) == [sentinel |-> FALSE, cost |-> c]

\* The loop of lines 426-432 from counter k on: the accumulated f_price.
RECURSIVE BuyLoop(_, _, _, _, _, _)
BuyLoop(k, n_tons, buying, p_creds, p_goods, f_price) ==
    IF k = n_tons THEN f_price
    ELSE LET price == PRICE(p_creds, p_goods)
         IN  BuyLoop(k + buying, n_tons, buying,
                     DAdd(p_creds, DMul(price, DInt(buying))),
                     DSub(p_goods, DInt(buying)),
                     DAdd(f_price, price))

\* A variant whose test of line 417 is < 1.0.
price_of_buyingStrictTest(n_tons, p_creds, p_goods) ==
    IF DLt(DSub(p_goods, DInt(n_tons)), DInt(1)) THEN Sentinel
    ELSE LET buying == IF n_tons > 0 THEN 1 ELSE -1
         IN  Cost(DTrunc(BuyLoop(0, n_tons, buying, p_creds, p_goods, Zero)))

price_of_buying(n_tons, p_creds, p_goods) ==
    IF DLe(DSub(p_goods, DInt(n_tons)), DInt(1)) THEN Sentinel
    ELSE LET buying == IF n_tons > 0 THEN 1 ELSE -1
         IN  Cost(DTrunc(BuyLoop(0, n_tons, buying, p_creds, p_goods, Zero)))

-----------------------------------------------------------------------------
(* Bounds of the exploration.                                              *)

\* Trade and production steps explored in one behaviour.
MaxSteps == 3

\* A step is explored from states whose numerators and denominators are at
\* most this, so that every product of the step fits TLC's 32-bit integers.
MaxMantissa == 64

\* The saturation of the sub-step counter nsub.
MaxSub == 440

\* The largest quantity price_of_buying is called with.
MaxTons == 5

\* Transfers in one trade pass of a galaxy that does not start at equal
\* credits and stockpiles: each transfer squares the size of the exact
\* values, and more than this many overflow TLC's 32-bit integers.
MaxTransfers == 2

\* Steps explored in one behaviour of a galaxy that produces goods: the
\* producing branch of production() divides by the stockpile, which squares
\* the size of the exact values at every step.
MaxProduce == 1

SmallValue(x) == Abs(x[1]) <= MaxMantissa /\ x[2] <= MaxMantissa

Small(S) ==
    \A s \in DOMAIN S :
        /\ SmallValue(S[s].credits)
        /\ \A g \in 1 .. Len(S[s].stockpiles) : SmallValue(S[s].stockpiles[g])

-----------------------------------------------------------------------------
(* The galaxy, which the engine is given.                                  *)

BlankSystem(id, jumps, planets) ==
    [id |-> id, jumps |-> jumps, planets |-> planets, credits |-> Zero,
     prices |-> NULL, stockpiles |-> NULL, prod_mods |-> NULL, bought |-> NULL]

\* A galaxy from its jump lists and planet lists (one entry per system).
Galaxy(jumps, planets) ==
    [s \in 0 .. (Len(jumps) - 1) |->
        BlankSystem(s, jumps[s + 1], planets[s + 1])]

\* Jump lists: an edge stored by both ends, by the lower end only, by the
\* higher end only, twice by the lower end, with self-jumps, a path and a
\* triangle.
JumpLists ==
    { << <<1>>, <<0>> >>,
      << <<1>>, <<>> >>,
      << <<>>, <<0>> >>,
      << <<1, 1>>, <<0>> >>,
      << <<0, 1>>, <<1, 0>> >>,
      << <<1>>, <<0, 2>>, <<1>> >>,
      << <<1, 2>>, <<0, 2>>, <<0, 1>> >> }

\* The transfers one trade pass makes for each commodity.
Transfers(jumps) ==
    Cardinality({ <<s, j>> \in (1 .. Len(jumps)) \X (1 .. 2) :
                    j <= Len(jumps[s]) /\ s - 1 < jumps[s][j] })

\* Every system holds the same credits and the same stockpiles.
Uniform(c, q) == \A s, t \in DOMAIN c : c[s] = c[t] /\ q[s] = q[t]

NoPlanets(jumps) == [k \in 1 .. Len(jumps) |-> <<>>]

\* Catalog files: the base prices of the commodity elements, in order.  In
\* two of them an element without a price precedes the priced ones.
Catalogs == { <<2>>, <<3, 2>>, <<0, 3>>, <<0, 3, 2>> }

\* The units credits and stockpiles are counted in: one credit and one
\* unit of goods, or half the program's starting credits and its starting
\* goods.  Counted in halves of STARTING_CREDITS, a galaxy holds the
\* program's 100,000,000 and 150,000,000 credits and 100,000 units.
Units == { <<DInt(1), DInt(1)>>, <<DDec(5, 7), STARTING_GOODS>> }

CreditValues(u) == { DMul(DInt(k), u[1]) : k \in 1 .. 3 }

StockValues(u) == { DMul(DInt(k), u[2]) : k \in 1 .. 2 }

TradeModifiers == { DDec(99, -2), DDec(5, -1) }

\* Planetary production modifiers: none, one that empties a stockpile in
\* one step (0.1 * -180000 * goods / 18000 = -goods), and a producer.
Mods == { 0, -180000, 500000 }

\* A planet's prod_mods array: the modifier m for every priced commodity.
PlanetData(m) == [g \in GoodNums |-> DInt(m)]

\* The planet lists of one system; NULL is a planet whose prod_mods was
\* never allocated.
PlanetLists ==
    {<<>>} \cup { <<PlanetData(m)>> : m \in Mods }
           \cup { <<NULL, PlanetData(500000)>>,
                  <<PlanetData(500000), PlanetData(-180000)>> }

\* Arguments of economy_update as <<q, r>>: 0, 1, 10000001, 30000000, and
\* two whose loop counter passes 2^32: 4290000001 and 4294967295 = 2^32 - 1.
SmallDts == { <<0, 0>>, <<0, 1>>, <<1, 1>>, <<3, 0>> }

WrapDts == { <<429, 1>>, <<429, 4967295>> }

\* Arguments of price_of_buying: credits and goods, whole and fractional,
\* with credits below and above the goods.
BuyCredits == { DInt(3), DInt(10), DInt(25), DDec(15, -1), DInt(1000) }

BuyGoods == { DInt(2), DDec(25, -1), DInt(4), DInt(7), DInt(10) }

-----------------------------------------------------------------------------
(* Totals, for the conservation of credits and goods.                      *)

RECURSIVE SumOver(_, _, _)
SumOver(f(_), k, n) == IF k >= n THEN Zero ELSE DAdd(f(k), SumOver(f, k + 1, n))

TotalCredits(S) ==
    LET c(s) == S[s].credits IN SumOver(c, 0, Cardinality(DOMAIN S))

TotalStock(S, g) ==
    LET q(s) == S[s].stockpiles[g] IN SumOver(q, 0, Cardinality(DOMAIN S))

Totals(S) == [credits |-> TotalCredits(S),
              stock   |-> [g \in GoodNums |-> TotalStock(S, g)]]

-----------------------------------------------------------------------------
(* Actions.                                                                *)

\* No totals recorded, and no call of price_of_buying made yet.
NoTotals == [credits |-> Zero, stock |-> <<>>]

NoCall == [n_tons |-> 0, p_creds |-> Zero, p_goods |-> Zero, price |-> Sentinel]

\* The call price_of_buying(n, c, q) with what it returns.
BuyCall(n, c, q) ==
    [n_tons |-> n, p_creds |-> c, p_goods |-> q,
     price |-> price_of_buying(n, c, q)]

\* Some system has a positive production modifier.
Producer(S) ==
    \E s \in DOMAIN S : \E g \in 1 .. Len(S[s].prod_mods) :
        DGt(S[s].prod_mods[g], Zero)

\* The states a trade, production or pricing step is explored from.
Explored ==
    /\ Small(systems_stack)
    /\ npass < (IF Producer(systems_stack) THEN MaxProduce ELSE MaxSteps)

catalogVars == <<commodity_stack, econ_comm, econ_nprices>>

tickVars == <<pc, dt, i, nsub>>

Here == Machine(systems_stack, fault, visits)

\* The machine state M becomes the state.  An action binds the result of
\* the function it calls once, as the one element of a set.
Becomes(M) ==
    /\ systems_stack' = M.sys
    /\ fault' = M.fault
    /\ visits' = M.visits

Callable == pc = "idle" /\ fault = "none"

\* trade_update() called by itself.
trade_update_call ==
    /\ Callable
    /\ Explored
    /\ \E M \in {trade_update(Here)} : Becomes(M)
    /\ call' = "trade_update"
    /\ npass' = npass + 1
    /\ UNCHANGED <<catalogVars, tickVars, econ_initialized, trade_modifier,
                   production_modifier, build_folds, pob, start>>

\* The state of the trade specification: a galaxy with live arrays, any
\* positive credits and stockpiles, any trade modifier.
TradeInit ==
    /\ \E file \in {<<2>>, <<3, 2>>} :
          LET cat == commodity_load(file)
          IN  /\ commodity_stack = cat.stack
              /\ econ_comm = cat.comm
              /\ econ_nprices = cat.nprices
    /\ \E jumps \in JumpLists :
          LET G == Galaxy(jumps, NoPlanets(jumps))
          IN  \E u \in Units :
              \E c \in [DOMAIN G -> CreditValues(u)] :
              \E q \in [DOMAIN G -> [GoodNums -> StockValues(u)]] :
                 /\ \/ Transfers(jumps) * econ_nprices <= MaxTransfers
                    \/ Uniform(c, q)
                 /\ systems_stack =
                      [s \in DOMAIN G |->
                          [G[s] EXCEPT !.credits = c[s],
                                       !.stockpiles = q[s],
                                       !.prices = [g \in GoodNums |-> Zero],
                                       !.prod_mods = [g \in GoodNums |-> Zero],
                                       !.bought = [g \in GoodNums |-> Zero]]]
    /\ econ_initialized = 1
    /\ trade_modifier \in TradeModifiers
    /\ production_modifier = INITIAL_PRODUCTION_MODIFIER
    /\ fault = "none"
    /\ visits = <<>>
    /\ build_folds = FALSE
    /\ pob = <<NoCall, NoCall>>
    /\ call = "none"
    /\ pc = "idle" /\ dt = <<0, 0>> /\ i = <<0, 0>> /\ nsub = 0
    /\ npass = 0
    /\ start = Totals(systems_stack)

TradeNext == trade_update_call

SpecTrade == TradeInit /\ [][TradeNext]_vars

-----------------------------------------------------------------------------
(* Properties of the trade pass, checked under SpecTrade.                  *)

DEq(a, b) == IsZero(DSub(a, b))

\* C1 -- Conservation under trade: on every galaxy graph, from every state
\* with positive credits and stockpiles, after any number of trade_update
\* passes the sum of the credits of all systems is what it was at the start,
\* and so is, for every priced commodity, the sum of its stockpiles.
Conservation ==
    /\ DEq(TotalCredits(systems_stack), start.credits)
    /\ \A g \in GoodNums : DEq(TotalStock(systems_stack, g), start.stock[g])

\* Goods were traded in the last pass.
Traded == \E s \in Sys : \E g \in GoodNums : ~IsZero(systems_stack[s].bought[g])

\* A second pass has moved credits and goods on a galaxy of three systems.
ConservationWitness ==
    /\ call = "trade_update"
    /\ npass >= 2
    /\ systems_nstack = 3
    /\ Traded

\* Two systems joined by one jump edge, which the lower system's jump list
\* stores once, and one priced commodity.
SingleEdge ==
    /\ systems_nstack = 2
    /\ econ_nprices = 1
    /\ systems_stack[0].jumps = <<1>>
    /\ systems_stack[1].jumps \in { <<>>, <<0>> }

\* credits / stockpiles[1] of system s in the galaxy S.
Ratio(S, s) == DDiv(S[s].credits, S[s].stockpiles[1])

\* credits1 * stock2 - credits2 * stock1 for systems 0 and 1 of S.
Cross(S) ==
    DSub(DMul(S[0].credits, S[1].stockpiles[1]),
         DMul(S[1].credits, S[0].stockpiles[1]))

\* C5 -- Direction of flow on one edge: for two systems joined by a single
\* jump edge and one priced commodity, a trade_update pass leaves the
\* credits and the stockpiles of both systems unchanged when
\* credits1 * stock2 = credits2 * stock1, and when credits1 / stock1 >
\* credits2 / stock2 it strictly decreases system 1's credits, strictly
\* increases system 2's credits, strictly increases system 1's stockpile and
\* strictly decreases system 2's stockpile.
DirectionOfFlow ==
    [][SingleEdge =>
        LET S == systems_stack
            T == systems_stack'
        IN  /\ IsZero(Cross(S)) =>
                 \A s \in {0, 1} :
                    /\ T[s].credits = S[s].credits
                    /\ T[s].stockpiles = S[s].stockpiles
            /\ DGt(Ratio(S, 0), Ratio(S, 1)) =>
                 /\ DLt(T[0].credits, S[0].credits)
                 /\ DGt(T[1].credits, S[1].credits)
                 /\ DGt(T[0].stockpiles[1], S[0].stockpiles[1])
                 /\ DLt(T[1].stockpiles[1], S[1].stockpiles[1])]_vars

\* One pass from 150,000,000 and 100,000,000 credits, 100,000 units each:
\* system 0 has bought goods and holds less than 150,000,000 credits.
DirectionOfFlowWitness ==
    /\ SingleEdge
    /\ call = "trade_update"
    /\ npass = 1
    /\ start.credits = DDec(25, 7)
    /\ start.stock[1] = DDec(2, 5)
    /\ DGt(systems_stack[0].bought[1], Zero)
    /\ DLt(systems_stack[0].credits, DDec(15, 7))
    /\ DGt(systems_stack[0].credits, STARTING_CREDITS)

\* C6 -- Equilibrium convergence: for two systems joined by a single edge,
\* one priced commodity and 0 < trade_modifier < 1, a trade_update pass from
\* positive credits and stockpiles strictly reduces
\* |credits1/stock1 - credits2/stock2| unless it is zero already, never
\* changes the sign of the difference, and multiplies
\* credits1*stock2 - credits2*stock1 by 1 - trade_modifier, so that repeated
\* passes drive the difference toward zero.
Convergence ==
    [][(SingleEdge /\ DGt(trade_modifier, Zero) /\ DLt(trade_modifier, DInt(1)))
       =>
        LET S  == systems_stack
            T  == systems_stack'
            d  == DSub(Ratio(S, 0), Ratio(S, 1))
            dd == DSub(Ratio(T, 0), Ratio(T, 1))
        IN  /\ ~IsZero(d) => DLt(DAbs(dd), DAbs(d))
            /\ DSgn(dd) * DSgn(d) >= 0
            /\ IsZero(d) => IsZero(dd)
            /\ DEq(Cross(T), DMul(DSub(DInt(1), trade_modifier), Cross(S)))]_vars

\* A second pass over one edge has moved goods: the difference, reduced by
\* the first pass, was reduced again.
ConvergenceWitness ==
    /\ SingleEdge
    /\ call = "trade_update"
    /\ npass >= 2
    /\ Traded
    /\ ~IsZero(Cross(systems_stack))

\* The number of entries of system a's jump list that name system b.
Stored(a, b) ==
    Cardinality({ j \in 1 .. Len(systems_stack[a].jumps) :
                    systems_stack[a].jumps[j] = b })

\* The number of transfers of the last pass from a to b for commodity g.
Applied(a, b, g) ==
    Cardinality({ k \in 1 .. Len(visits) : visits[k] = <<a, b, g>> })

-----------------------------------------------------------------------------
(* The entry points as actions.  A call made while economy_update's loop   *)
(* runs, or after a fault, does not happen: the program is single-threaded *)
(* and a null access ends it.                                              *)

economy_init_call ==
    /\ Callable
    /\ call' = "economy_init"
    /\ IF econ_initialized # 0
       THEN UNCHANGED <<systems_stack, fault, visits, econ_initialized,
                        trade_modifier>>
       ELSE \E M \in {economy_init(Here)} :
                /\ Becomes(M)
                /\ trade_modifier' = INITIAL_TRADE_MODIFIER
                /\ econ_initialized' = IF M.fault = "none" THEN 1 ELSE 0
    /\ UNCHANGED <<catalogVars, tickVars, production_modifier, build_folds,
                   pob, npass, start>>

economy_destroy_call ==
    /\ Callable
    /\ call' = "economy_destroy"
    /\ IF econ_initialized = 0
       THEN UNCHANGED <<systems_stack, fault, visits, econ_initialized>>
       ELSE /\ \E M \in {economy_destroy(Here)} : Becomes(M)
            /\ econ_initialized' = 0
    /\ UNCHANGED <<catalogVars, tickVars, trade_modifier, production_modifier,
                   build_folds, pob, npass, start>>

refresh_economy_call ==
    /\ Callable
    /\ call' = "refresh_economy"
    /\ \E M \in {refresh_economy(Here)} : Becomes(M)
    /\ UNCHANGED <<catalogVars, tickVars, econ_initialized, trade_modifier,
                   production_modifier, build_folds, pob, npass, start>>

refresh_prices_call ==
    /\ Callable
    /\ Small(systems_stack)
    /\ call' = "refresh_prices"
    /\ \E M \in {refresh_prices(Here)} : Becomes(M)
    /\ UNCHANGED <<catalogVars, tickVars, econ_initialized, trade_modifier,
                   production_modifier, build_folds, pob, npass, start>>

produce_consume_call ==
    /\ Callable
    /\ Explored
    /\ call' = "produce_consume"
    /\ \E M \in {produce_consume(Here)} : Becomes(M)
    /\ npass' = npass + 1
    /\ UNCHANGED <<catalogVars, tickVars, econ_initialized, trade_modifier,
                   production_modifier, build_folds, pob, start>>

\* economy_update(d) up to its loop: line 694 and the reprice of line 696.
economy_update_call(d) ==
    /\ Callable
    /\ Small(systems_stack)
    /\ call' = "economy_update"
    /\ \E M \in {refresh_prices(Here)} : Becomes(M)
    /\ pc' = "loop"
    /\ dt' = d
    /\ i' = <<0, 0>>
    /\ nsub' = 0
    /\ UNCHANGED <<catalogVars, econ_initialized, trade_modifier,
                   production_modifier, build_folds, pob, npass, start>>

\* One iteration of the loop of lines 698-704: the test i < dt, the three
\* calls of the body, and i += 10000000.
economy_update_iter ==
    /\ pc = "loop"
    /\ fault = "none"
    /\ WLt(i, dt)
    /\ Explored
    /\ \E M \in {SubStep(Here)} : Becomes(M)
    /\ i' = AddStep(i)
    /\ nsub' = Min(nsub + 1, MaxSub)
    /\ npass' = npass + 1
    /\ UNCHANGED <<catalogVars, econ_initialized, trade_modifier,
                   production_modifier, build_folds, pob, call, pc, dt, start>>

\* The iterations a counter value x goes through before it wraps: the least
\* k with x + k * 10000000 >= 2^32.
ToWrap(x) == IF x[2] >= TwoTo32[2] THEN TwoTo32[1] - x[1]
             ELSE TwoTo32[1] + 1 - x[1]

\* The iterations before the test i < d fails without a wrap: the least k
\* with x + k * 10000000 >= d, for x < d.
ToExit(x, d) == IF x[2] >= d[2] THEN d[1] - x[1] ELSE d[1] + 1 - x[1]

\* The iterations of the loop up to the next one whose test fails or whose
\* increment wraps the counter, taken at once in a galaxy that a sub-step
\* leaves as it is: the counter advances by that many increments modulo
\* 2^32 and the galaxy has gone through that many equal sub-steps.
economy_update_run ==
    /\ pc = "loop"
    /\ fault = "none"
    /\ WLt(i, dt)
    /\ Small(systems_stack)
    /\ ~Producer(systems_stack)
    /\ \E M \in {SubStep(Here)} :
          /\ M.fault = "none"
          /\ M.sys = systems_stack
          /\ Becomes(M)
    /\ \E k \in {Min(ToWrap(i), ToExit(i, dt))} :
          /\ i' = U32(<<i[1] + k, i[2]>>)
          /\ nsub' = Min(nsub + k, MaxSub)
    /\ UNCHANGED <<catalogVars, econ_initialized, trade_modifier,
                   production_modifier, build_folds, pob, call, pc, dt, npass,
                   start>>

\* The test i < dt fails and economy_update returns.
economy_update_return ==
    /\ pc = "loop"
    /\ fault = "none"
    /\ ~WLt(i, dt)
    /\ pc' = "idle"
    /\ UNCHANGED <<catalogVars, systems_stack, fault, visits, econ_initialized,
                   trade_modifier, production_modifier, build_folds, pob, call,
                   dt, i, nsub, npass, start>>

\* price_of_buying(n, c, q), a pure function: the state keeps the last two
\* calls, each with its result.
price_of_buying_call(n, c, q) ==
    /\ pob' = <<pob[2], BuyCall(n, c, q)>>
    /\ UNCHANGED <<catalogVars, tickVars, systems_stack, fault, visits,
                   econ_initialized, trade_modifier, production_modifier,
                   build_folds, call, npass, start>>

-----------------------------------------------------------------------------
(* The engine from program start: the catalog is loaded, the systems hold  *)
(* no arrays, and the entry points are called in any order.                *)

Init ==
    /\ \E file \in Catalogs :
          LET cat == commodity_load(file)
          IN  /\ commodity_stack = cat.stack
              /\ econ_comm = cat.comm
              /\ econ_nprices = cat.nprices
    /\ \E p0 \in PlanetLists : \E p1 \in {<<>>, <<PlanetData(-180000)>>} :
          systems_stack = Galaxy(<< <<1>>, <<0>> >>, <<p0, p1>>)
    /\ econ_initialized = 0
    /\ trade_modifier = INITIAL_TRADE_MODIFIER
    /\ production_modifier = INITIAL_PRODUCTION_MODIFIER
    /\ fault = "none"
    /\ visits = <<>>
    /\ build_folds \in BOOLEAN
    /\ pob = <<NoCall, NoCall>>
    /\ call = "none"
    /\ pc = "idle" /\ dt = <<0, 0>> /\ i = <<0, 0>> /\ nsub = 0
    /\ npass = 0
    /\ start = NoTotals

Next ==
    \/ economy_init_call
    \/ economy_destroy_call
    \/ refresh_economy_call
    \/ refresh_prices_call
    \/ trade_update_call
    \/ produce_consume_call
    \/ \E d \in SmallDts : economy_update_call(d)
    \/ economy_update_iter
    \/ economy_update_return

Spec == Init /\ [][Next]_vars

-----------------------------------------------------------------------------
(* The tick driver on an initialized engine.                               *)

TickInit ==
    /\ \E file \in {<<2>>, <<3, 2>>} :
          LET cat == commodity_load(file)
          IN  /\ commodity_stack = cat.stack
              /\ econ_comm = cat.comm
              /\ econ_nprices = cat.nprices
    /\ \E p0 \in {<<>>, <<PlanetData(500000)>>} :
          systems_stack =
              economy_init(Machine(Galaxy(<< <<1>>, <<0>> >>, <<p0, <<>> >>),
                                   "none", <<>>)).sys
    /\ econ_initialized = 1
    /\ trade_modifier = INITIAL_TRADE_MODIFIER
    /\ production_modifier = INITIAL_PRODUCTION_MODIFIER
    /\ fault = "none"
    /\ visits = <<>>
    /\ build_folds = FALSE
    /\ pob = <<NoCall, NoCall>>
    /\ call = "economy_init"
    /\ pc = "idle" /\ dt = <<0, 0>> /\ i = <<0, 0>> /\ nsub = 0
    /\ npass = 0
    /\ start = NoTotals

TickNext ==
    \/ \E d \in SmallDts \cup {<<429, 1>>} : economy_update_call(d)
    \/ economy_update_iter
    \/ economy_update_run
    \/ economy_update_return

SpecTick == TickInit /\ [][TickNext]_vars

-----------------------------------------------------------------------------
(* The tick driver's loop counter: economy_update with arguments whose     *)
(* counter passes 2^32, on an initialized galaxy of one system, which the  *)
(* sub-steps leave as it is.                                               *)

WrapInit ==
    /\ LET cat == commodity_load(<<2>>)
       IN  /\ commodity_stack = cat.stack
           /\ econ_comm = cat.comm
           /\ econ_nprices = cat.nprices
    /\ systems_stack =
          economy_init(Machine(Galaxy(<< <<>> >>, << <<>> >>), "none", <<>>)).sys
    /\ econ_initialized = 1
    /\ trade_modifier = INITIAL_TRADE_MODIFIER
    /\ production_modifier = INITIAL_PRODUCTION_MODIFIER
    /\ fault = "none"
    /\ visits = <<>>
    /\ build_folds = FALSE
    /\ pob = <<NoCall, NoCall>>
    /\ call = "economy_init"
    /\ pc = "idle" /\ dt = <<0, 0>> /\ i = <<0, 0>> /\ nsub = 0
    /\ npass = 0
    /\ start = NoTotals

WrapNext ==
    \/ \E d \in WrapDts : economy_update_call(d)
    \/ economy_update_run
    \/ economy_update_return

SpecWrap == WrapInit /\ [][WrapNext]_vars

-----------------------------------------------------------------------------
(* The buy-cost integrator on its own.                                     *)

BuyInit ==
    /\ commodity_stack = <<>>
    /\ econ_comm = <<>>
    /\ econ_nprices = 0
    /\ systems_stack = Galaxy(<<>>, <<>>)
    /\ econ_initialized = 0
    /\ trade_modifier = INITIAL_TRADE_MODIFIER
    /\ production_modifier = INITIAL_PRODUCTION_MODIFIER
    /\ fault = "none"
    /\ visits = <<>>
    /\ build_folds = FALSE
    /\ \E c \in BuyCredits : \E q \in BuyGoods :
          pob = <<BuyCall(0, c, q), BuyCall(0, c, q)>>
    /\ call = "none"
    /\ pc = "idle" /\ dt = <<0, 0>> /\ i = <<0, 0>> /\ nsub = 0
    /\ npass = 0
    /\ start = NoTotals

\* Another quantity is priced at the same credits and goods.
BuyNext ==
    \E n \in (0 - MaxTons) .. MaxTons :
        price_of_buying_call(n, pob[2].p_creds, pob[2].p_goods)

SpecBuy == BuyInit /\ [][BuyNext]_vars


-----------------------------------------------------------------------------
(* Properties of the engine from program start, checked under Spec.        *)

\* The four arrays of system s are allocated.
Live(s) == systems_stack[s].stockpiles # NULL

\* C2 -- Positivity floor: from the initialized state, after any sequence of
\* trade_update and produce_consume steps and for any production modifiers,
\* every stockpile of every system is strictly greater than zero.
PositivityFloor ==
    \A s \in Sys : Live(s) =>
        \A g \in GoodNums : DGt(systems_stack[s].stockpiles[g], Zero)

\* The state variables an entry point of the engine can change.
engineVars == <<systems_stack, fault, visits, econ_initialized, trade_modifier,
                production_modifier, catalogVars>>

\* C8 -- Initialization gating: in any sequence of calls of economy_init,
\* economy_destroy, economy_update and refresh_economy no array of a system
\* is read or written while it is released or unallocated, and an entry
\* point called while the engine is not initialized leaves all state
\* unchanged.
InitializationGating ==
    [][/\ fault' # "system"
       /\ (econ_initialized = 0 /\ pc = "idle"
           /\ call' \in {"economy_destroy", "economy_update", "refresh_economy"})
          => UNCHANGED engineVars]_vars

\* The sum of prod_mods[g] over the planets of the list, from planet pl on,
\* whose prod_mods is allocated.
RECURSIVE InitializedSum(_, _, _)
InitializedSum(planets, g, pl) ==
    IF pl > Len(planets) THEN Zero
    ELSE IF planets[pl] = NULL THEN InitializedSum(planets, g, pl + 1)
    ELSE DAdd(planets[pl][g], InitializedSum(planets, g, pl + 1))

\* C9 -- Production aggregation with skip: after refresh_economy every
\* prod_mods[g] of every system is the sum of prod_mods[g] over the planets
\* of the system whose per-good data is initialized; a planet without it is
\* skipped without a fault and the planets after it are still added.
AggregationWithSkip ==
    /\ fault # "planet"
    /\ \A s \in Sys : Live(s) =>
          \A g \in GoodNums :
             DEq(systems_stack[s].prod_mods[g],
                 InitializedSum(systems_stack[s].planets, g, 1))

\* The priced commodities among the first k entries of the catalog.
RECURSIVE PricedBefore(_)
PricedBefore(k) ==
    IF k = 0 THEN 0
    ELSE PricedBefore(k - 1) + (IF commodity_stack[k].price > 0 THEN 1 ELSE 0)

\* The catalog entry (counted from 1) that econ_comm maps the priced slot g
\* to: econ_comm holds positions of commodity_stack counted from 0.
SlotEntry(g) == econ_comm[g] + 1

\* Every priced commodity carries the index of its own priced slot, the
\* slot econ_comm maps back to it, and a commodity without a price keeps
\* the index it was cleared to.
OwnIndex ==
    \A k \in 1 .. Len(commodity_stack) :
        IF commodity_stack[k].price > 0
        THEN /\ commodity_stack[k].index = PricedBefore(k - 1)
             /\ SlotEntry(commodity_stack[k].index + 1) = k
        ELSE commodity_stack[k].index = 0

\* The price of slot g of a system under the base price of the catalog
\* entry the slot is mapped to.
OwnPrice(sys, g) ==
    DMul(DInt(commodity_stack[SlotEntry(g)].price),
         PRICE(sys.credits, sys.stockpiles[g]))

\* refresh_prices has returned without a fault.
Repriced == call = "refresh_prices" /\ fault = "none"

\* C11 -- Pricing uses the priced commodity's own base price: for every
\* catalog order, also when a commodity with base price 0 precedes a priced
\* one, after commodity_load each priced commodity, and only a priced one,
\* carries its own priced-slot index, and after refresh_prices every
\* prices[g] of every system is the base price of the catalog entry mapped
\* to slot g times P(credits, stockpiles[g]).
OwnBasePrice ==
    /\ OwnIndex
    /\ Repriced =>
          \A s \in Sys : Live(s) =>
             \A g \in GoodNums :
                systems_stack[s].prices[g] = OwnPrice(systems_stack[s], g)

-----------------------------------------------------------------------------
(* Properties of the tick driver, checked under SpecTick and SpecWrap.     *)

\* Every price is the one refresh_prices computes from the credits and
\* stockpiles of the state.
PricesConsistent ==
    \A s \in Sys : \A g \in GoodNums :
        systems_stack[s].prices[g] = PriceOf(systems_stack[s], g)

\* C4 -- Tick driver sequencing: economy_update(dt) has made exactly
\* ceil(dt / 10000000) sub-steps when it returns (none for dt = 0, one for a
\* final partial increment), and its last operation is a reprice, so that
\* on return every price agrees with the credits and stockpiles.
TickSequencing ==
    (pc = "idle" /\ call = "economy_update") =>
        /\ nsub = Ceil(dt)
        /\ PricesConsistent

\* C3 -- Tick driver termination: economy_update(dt) terminates for every
\* dt.  The loop's test and increment read only i and dt, and dt does not
\* change, so a loop that terminates never finds its counter back at the
\* value 0 it started from after a sub-step.
CounterNeverRecurs == ~(pc = "loop" /\ nsub > 0 /\ i = <<0, 0>>)

-----------------------------------------------------------------------------
(* Properties of the buy-cost integrator, checked under SpecBuy.           *)

\* price_of_buying returned the constant of line 418 exactly when
\* p_goods - n_tons <= 1.
SentinelRule(r) ==
    (r.price = Sentinel) <=> DLe(DSub(r.p_goods, DInt(r.n_tons)), DInt(1))

\* Calls a and b priced quantities n1 < n2 at the same credits and goods,
\* with n1 >= 0 and p_goods - n2 > 1.
Ordered(a, b) ==
    /\ a.p_creds = b.p_creds
    /\ a.p_goods = b.p_goods
    /\ 0 <= a.n_tons
    /\ a.n_tons < b.n_tons
    /\ DGt(DSub(b.p_goods, DInt(b.n_tons)), DInt(1))

=============================================================================
